---- MODULE Spec2Model ----
(***************************************************************************)
(* The task scheduler of src/Scheduler/OS.c: the task table (task_array,   *)
(* task_count), the clock (os_time) and the API that works on them.        *)
(* In the sequential specifications every API call is one atomic action;   *)
(* SpecPreempt runs OS_TaskCreate and OS_TaskExecution statement by         *)
(* statement, with the timer interrupt between any two statements.         *)
(***************************************************************************)
EXTENDS Integers, Sequences, FiniteSets, TLC

\* ------------------------------------------------------------ constants
\* The capacity of the table. OS.h:30 sets 25; the model bounds it to a
\* table small enough to fill and to enumerate.
OS_MAX_TASK_NUM == 2
OS_MAX_TIME == 86400000
OS_MIN_TIME == 1
period_end == 0
period_1ms == 1
period_10ms == 10
NULL == 0

\* execute_time and os_time are uint32_t. The model checker's integers are
\* 32-bit signed, so the time word is modelled modulo 2^30 instead of 2^32.
WordMod == 1073741824
\* How far the clock is ticked: in Spec, and in SpecTimed.
RegMaxTime == 1
MaxTime == 3
\* How far the clock is ticked in SpecPreempt.
PreMaxTime == 2
\* How far the clock is ticked in SpecLive.
LiveMaxTime == 3
\* How far the clock is ticked in SpecWrap after it has wrapped.
WrapMaxTime == 1
\* How far the clock is ticked in SpecDrift.
DriftMaxTime == 8
\* How many rounds of ten ticks and an execution pass SpecScenarioA runs.
ScenarioRounds == 10

U32(x) == x % WordMod

\* ------------------------------------------------------------ input sets
\* Task identities (function pointers): enough for one more than the table holds.
Fns == 1..(OS_MAX_TASK_NUM + 1)
FnArgs == Fns \cup {NULL}
OS_state == {"SUSPENDED", "BLOCKED", "READY", "STOPPED"}
OS_feedback == {"OK", "NOK_NULL_PTR", "NOK_TIME_LIMIT", "NOK_CNT_LIMIT", "NOK_UNKNOWN"}
\* What a task body may return, and what OS_SetTaskPeriod is given.
RetVals == {period_end, 1, 2}

\* ------------------------------------------------------------ state
VARIABLES
    task_array,   \* OS.c:21; index OS_MAX_TASK_NUM is the memory just past the array
    task_count,   \* OS.c:22
    os_time,      \* OS.c:23
    obs,          \* the last API call: its name, its return value, and the slots it
                  \* invoked (OS_TaskExecution) or made READY (OS_TaskTimer)
    fault,        \* a NULL entry point was called
    due,          \* history, per identity: clock + defer (unwrapped) of its registration
                  \* as BLOCKED with a defer of at least 1, until the clock is past it,
                  \* a setter is called with the identity or it is registered anew; else -1
    main          \* the main context inside a call that the timer interrupt may preempt:
                  \* where it is and its locals; idle when no call is in progress

vars == <<task_array, task_count, os_time, obs, fault, due, main>>

Cells == 0..OS_MAX_TASK_NUM
Slots == 0..(OS_MAX_TASK_NUM - 1)

\* A zero-initialised OS_struct (SUSPENDED is enumerator 0).
EmptyTask ==
    [function |-> NULL, task_period |-> 0, execute_time |-> 0,
     state |-> "SUSPENDED", data_ptr |-> NULL]

Obs(op, ret, calls) == [op |-> op, ret |-> ret, calls |-> calls]

\* The main context between two API calls. In a call: pc is where it is; function,
\* default_task_period, default_state, function_data_ptr and defer_time are
\* OS_TaskCreate's parameters; i and position its (and OS_TaskExecution's) locals;
\* period is what the task called last returned; pending are the stores the call
\* has still to make; calls and invoked are the slots and the entry points the
\* pass in progress has called.
Idle ==
    [pc |-> "idle", function |-> 0, default_task_period |-> 0,
     default_state |-> "SUSPENDED", function_data_ptr |-> 0, defer_time |-> 0,
     i |-> 0, position |-> 0, period |-> 0, pending |-> {},
     calls |-> <<>>, invoked |-> <<>>]

Init ==
    /\ task_array = [i \in Cells |-> EmptyTask]
    /\ task_count = 0
    /\ os_time = 0
    /\ obs = Obs("none", "NOK_UNKNOWN", <<>>)
    /\ fault = FALSE
    /\ due = [f \in Fns |-> -1]
    /\ main = Idle

\* ------------------------------------------------------------ helpers
Min(S) == CHOOSE x \in S : \A y \in S : x <= y

\* OS_TaskFind: first index below task_count holding the function, else an invalid position.
OS_TaskFind_FromOne(function) ==
    LET hits == {i \in 1..(task_count - 1) : task_array[i].function = function}
    IN  IF hits /= {} THEN Min(hits) ELSE OS_MAX_TASK_NUM + 1

OS_TaskFind(function) ==
    LET hits == {i \in 0..(task_count - 1) : task_array[i].function = function}
    IN  IF hits /= {} THEN Min(hits) ELSE OS_MAX_TASK_NUM + 1

\* OS_TaskInsertPosition, the index it returns: first NULL slot in 0..task_count.
OS_TaskInsertPosition_Tail == task_count

OS_TaskInsertPosition ==
    LET free == {i \in 0..task_count : i \in Cells /\ task_array[i].function = NULL}
    IN  IF free /= {} THEN Min(free) ELSE task_count + 1

\* The indices the loops over the table read: OS_TaskFind, OS_TaskTimer and
\* OS_TaskExecution run i below task_count; OS_TaskInsertPosition runs i up to
\* task_count and stops at the first NULL entry point.
ScanRange == 0..(task_count - 1)

InsertScan ==
    {i \in 0..task_count :
        \A j \in 0..(i - 1) : j \in Cells /\ task_array[j].function /= NULL}

\* OS_TaskInsertPosition, its side effect on task_count.
InsertCount(position) ==
    IF position = task_count THEN task_count + 1 ELSE task_count

\* OS_TaskCreate's two checks.
TimeLimit_OffByOne(default_task_period) ==
    (OS_MIN_TIME >= default_task_period) \/ (OS_MAX_TIME < default_task_period)

TimeLimit(default_task_period) ==
    (OS_MIN_TIME > default_task_period) \/ (OS_MAX_TIME < default_task_period)

CountLimit_OffByOne == OS_MAX_TASK_NUM < task_count

CountLimit == OS_MAX_TASK_NUM <= task_count

\* The record OS_TaskCreate writes into a new position.
NewTask(function, default_task_period, default_state, function_data_ptr, defer_time) ==
    [function |-> function, task_period |-> default_task_period,
     execute_time |-> U32(os_time + defer_time),
     state |-> default_state, data_ptr |-> function_data_ptr]

\* The record OS_TaskCreate leaves at the position of a task already in the array.
UpdatedTask(t, default_task_period, default_state, function_data_ptr, defer_time) ==
    [t EXCEPT !.task_period = default_task_period,
              !.state = default_state,
              !.execute_time = U32(os_time + defer_time),
              !.data_ptr = function_data_ptr]

Store(arr, position, t) ==
    IF position \in Cells THEN [arr EXCEPT ![position] = t] ELSE arr

Untrack(function) ==
    IF function \in Fns THEN [due EXCEPT ![function] = -1] ELSE due

\* ------------------------------------------------------------ OS_TaskCreate
OS_TaskCreate(function, default_task_period, default_state, function_data_ptr, defer_time) ==
    /\ ~fault
    /\ IF TimeLimit(default_task_period)
       THEN /\ obs' = Obs("OS_TaskCreate", "NOK_TIME_LIMIT", <<>>)
            /\ UNCHANGED <<task_array, task_count, due>>
       ELSE IF CountLimit
       THEN /\ obs' = Obs("OS_TaskCreate", "NOK_CNT_LIMIT", <<>>)
            /\ UNCHANGED <<task_array, task_count, due>>
       ELSE LET found == OS_TaskFind(function)
                position == IF found > OS_MAX_TASK_NUM THEN OS_TaskInsertPosition ELSE found
            IN  /\ IF found > OS_MAX_TASK_NUM
                   THEN /\ task_count' = InsertCount(position)
                        /\ task_array' = Store(task_array, position,
                               NewTask(function, default_task_period, default_state,
                                       function_data_ptr, defer_time))
                   ELSE /\ task_count' = task_count
                        /\ task_array' = Store(task_array, position,
                               UpdatedTask(task_array[position], default_task_period,
                                           default_state, function_data_ptr, defer_time))
                /\ obs' = Obs("OS_TaskCreate", "OK", <<>>)
                /\ due' = IF function \in Fns
                          THEN [due EXCEPT ![function] =
                                   IF default_state = "BLOCKED" /\ defer_time >= 1
                                   THEN os_time + defer_time ELSE -1]
                          ELSE due
    /\ UNCHANGED <<os_time, fault, main>>

\* ------------------------------------------------------------ OS_TaskTimer
\* What one iteration of the timer's loop does to a slot, now being the incremented clock.
TimerSlot_KeepsStopped(t, now) ==
    IF t.state = "BLOCKED" /\ t.execute_time <= now
    THEN [t EXCEPT !.execute_time = U32(t.execute_time + t.task_period * period_1ms),
                   !.state = "READY"]
    ELSE t

TimerSlot_FromNow(t, now) ==
    IF t.state = "BLOCKED"
    THEN IF t.execute_time <= now
         THEN [t EXCEPT !.execute_time = U32(now + t.task_period * period_1ms),
                        !.state = "READY"]
         ELSE t
    ELSE IF t.state = "STOPPED" THEN EmptyTask ELSE t

TimerSlot_WakesSuspended(t, now) ==
    IF t.state = "STOPPED"
    THEN EmptyTask
    ELSE IF t.state /= "READY" /\ t.execute_time <= now
         THEN [t EXCEPT !.execute_time = U32(t.execute_time + t.task_period * period_1ms),
                        !.state = "READY"]
         ELSE t

TimerSlot_RearmsReady(t, now) ==
    IF t.state \in {"BLOCKED", "READY"}
    THEN IF t.execute_time <= now
         THEN [t EXCEPT !.execute_time = U32(t.execute_time + t.task_period * period_1ms),
                        !.state = "READY"]
         ELSE t
    ELSE IF t.state = "STOPPED" THEN EmptyTask ELSE t

TimerSlot_Late(t, now) ==
    IF t.state = "BLOCKED"
    THEN IF t.execute_time < now
         THEN [t EXCEPT !.execute_time = U32(t.execute_time + t.task_period * period_1ms),
                        !.state = "READY"]
         ELSE t
    ELSE IF t.state = "STOPPED" THEN EmptyTask ELSE t

TimerSlot(t, now) ==
    IF t.state /= "SUSPENDED"
    THEN IF t.state = "BLOCKED"
         THEN IF t.execute_time <= now
              THEN [t EXCEPT !.execute_time = U32(t.execute_time + t.task_period * period_1ms),
                             !.state = "READY"]
              ELSE t
         ELSE IF t.state = "STOPPED"
              THEN EmptyTask
              ELSE t
    ELSE t

\* The slots a tick moves to READY, now being the incremented clock.
DueSlots(now) ==
    SelectSeq([k \in 1..task_count |-> k - 1],
              LAMBDA i : task_array[i].state = "BLOCKED" /\ task_array[i].execute_time <= now)

OS_TaskTimer ==
    /\ ~fault
    /\ os_time' = U32(os_time + period_1ms)
    /\ task_array' = [i \in Cells |->
                        IF i < task_count THEN TimerSlot(task_array[i], os_time')
                        ELSE task_array[i]]
    /\ obs' = Obs("OS_TaskTimer", "OK", DueSlots(os_time'))
    /\ due' = [f \in Fns |-> IF due[f] < os_time' THEN -1 ELSE due[f]]
    /\ UNCHANGED <<task_count, fault, main>>

\* ------------------------------------------------------------ OS_TaskExecution
\* What the pass does to a READY slot whose task returned period.
ExecSlot_AlwaysRearms(t, period, now) ==
    [t EXCEPT !.task_period = period, !.execute_time = U32(now + period),
              !.state = IF period = period_end THEN "STOPPED" ELSE "BLOCKED"]

ExecSlot(t, period, now) ==
    LET t1 == IF period /= t.task_period
              THEN [t EXCEPT !.task_period = period, !.execute_time = U32(now + period)]
              ELSE t
    IN  [t1 EXCEPT !.state = IF period = period_end THEN "STOPPED" ELSE "BLOCKED"]

\* The slots the pass finds READY, in scan order.
ReadySlots ==
    SelectSeq([k \in 1..task_count |-> k - 1], LAMBDA i : task_array[i].state = "READY")

\* The first READY slot with a NULL entry point: calling it is a fault, the pass ends there.
FaultSlot ==
    LET bad == {i \in 0..(task_count - 1) :
                   task_array[i].state = "READY" /\ task_array[i].function = NULL}
    IN  IF bad /= {} THEN Min(bad) ELSE OS_MAX_TASK_NUM + 1

OS_TaskExecution(rets) ==
    /\ ~fault
    /\ \A i \in Cells : (i >= task_count \/ task_array[i].state /= "READY") => rets[i] = period_end
    /\ task_array' = [i \in Cells |->
                        IF i < task_count /\ i < FaultSlot /\ task_array[i].state = "READY"
                        THEN ExecSlot(task_array[i], rets[i], os_time)
                        ELSE task_array[i]]
    /\ obs' = Obs("OS_TaskExecution", "OK",
                  SelectSeq(ReadySlots, LAMBDA i : i <= FaultSlot))
    /\ fault' = (FaultSlot <= OS_MAX_TASK_NUM)
    /\ UNCHANGED <<task_count, os_time, due, main>>

\* ------------------------------------------------------------ queries
OS_TaskIsInQueue(function) == OS_TaskFind(function) < OS_MAX_TASK_NUM

OS_GetOsTime == os_time

OS_GetTaskState(function) ==
    LET position == OS_TaskFind(function)
    IN  IF position < OS_MAX_TASK_NUM THEN task_array[position].state ELSE "SUSPENDED"

OS_GetTaskPeriod(function) ==
    LET position == OS_TaskFind(function)
    IN  IF position < OS_MAX_TASK_NUM THEN task_array[position].task_period ELSE 0

OS_GetTaskExecuteTime(function) ==
    LET position == OS_TaskFind(function)
    IN  IF position < OS_MAX_TASK_NUM THEN task_array[position].execute_time ELSE 0

\* ------------------------------------------------------------ setters
OS_SetTaskState(function, new_state) ==
    /\ ~fault
    /\ LET position == OS_TaskFind(function)
       IN  IF position < OS_MAX_TASK_NUM
           THEN /\ task_array' = [task_array EXCEPT ![position].state = new_state]
                /\ obs' = Obs("OS_SetTaskState", "OK", <<>>)
                /\ due' = Untrack(function)
           ELSE /\ obs' = Obs("OS_SetTaskState", "NOK_NULL_PTR", <<>>)
                /\ UNCHANGED <<task_array, due>>
    /\ UNCHANGED <<task_count, os_time, fault, main>>

OS_SetTaskPeriod(function, new_task_period) ==
    /\ ~fault
    /\ LET position == OS_TaskFind(function)
       IN  IF position < OS_MAX_TASK_NUM
           THEN /\ task_array' = [task_array EXCEPT ![position].task_period = new_task_period]
                /\ obs' = Obs("OS_SetTaskPeriod", "OK", <<>>)
                /\ due' = Untrack(function)
           ELSE /\ obs' = Obs("OS_SetTaskPeriod", "NOK_NULL_PTR", <<>>)
                /\ UNCHANGED <<task_array, due>>
    /\ UNCHANGED <<task_count, os_time, fault, main>>

OS_SetTaskExecuteTime(function, new_execute_time) ==
    /\ ~fault
    /\ LET position == OS_TaskFind(function)
       IN  IF position < OS_MAX_TASK_NUM
           THEN /\ task_array' = [task_array EXCEPT ![position].execute_time = new_execute_time]
                /\ obs' = Obs("OS_SetTaskExecuteTime", "OK", <<>>)
                /\ due' = Untrack(function)
           ELSE /\ obs' = Obs("OS_SetTaskExecuteTime", "NOK_NULL_PTR", <<>>)
                /\ UNCHANGED <<task_array, due>>
    /\ UNCHANGED <<task_count, os_time, fault, main>>

\* ------------------------------------------------------------ specifications
\* Spec: the registry. Every identity registers (callers pass non-null entry
\* points, spec section 3), with periods on and around both bounds; tasks run,
\* stop, ticks reclaim them, and the table fills.
RegPeriods == {OS_MIN_TIME - 1, OS_MIN_TIME, OS_MAX_TIME, OS_MAX_TIME + 1}
RegStates == {"BLOCKED", "STOPPED"}
RegData == {NULL}
RegDefers == {0}
RegRets == {period_end, 1}

RegCreate ==
    \E f \in Fns, p \in RegPeriods, s \in RegStates, d \in RegData, t \in RegDefers :
        OS_TaskCreate(f, p, s, d, t)

RegTimer == os_time < RegMaxTime /\ OS_TaskTimer

RegExecution == \E rets \in [Cells -> RegRets] : OS_TaskExecution(rets)

Next == RegCreate \/ RegTimer \/ RegExecution

Spec == Init /\ [][Next]_vars

\* SpecTimed: one task driven with every argument, the setters called with its
\* identity, with an identity that was never registered and with NULL.
TimedFns == {1}
TimedFnArgs == {NULL, 1, 2}
TimedPeriods == {OS_MIN_TIME, 2}
DataArgs == {NULL, 1}
DeferArgs == {0, 1, 2, WordMod - 1}
TimeArgs == {0, 2}

TimedCreate ==
    \E f \in TimedFns, p \in TimedPeriods, s \in OS_state, d \in DataArgs, t \in DeferArgs :
        OS_TaskCreate(f, p, s, d, t)

TimedTimer == os_time < MaxTime /\ OS_TaskTimer

TimedExecution == \E rets \in [Cells -> RetVals] : OS_TaskExecution(rets)

TimedSetState == \E f \in TimedFnArgs, s \in OS_state : OS_SetTaskState(f, s)

TimedSetPeriod == \E f \in TimedFnArgs, p \in RetVals : OS_SetTaskPeriod(f, p)

TimedSetExecuteTime == \E f \in TimedFnArgs, t \in TimeArgs : OS_SetTaskExecuteTime(f, t)

NextTimed ==
    \/ TimedCreate \/ TimedTimer \/ TimedExecution
    \/ TimedSetState \/ TimedSetPeriod \/ TimedSetExecuteTime

SpecTimed == Init /\ [][NextTimed]_vars

\* ------------------------------------------------------------ claims: vocabulary
\* A slot holds an active record when its entry point is set.
Active(i) == task_array[i].function /= NULL
HasRecord(f) == \E i \in Slots : task_array[i].function = f
SlotOf(f) == CHOOSE i \in Slots : task_array[i].function = f
ActiveCount == Cardinality({i \in Cells : Active(i)})
ValidPeriod(p) == OS_MIN_TIME <= p /\ p <= OS_MAX_TIME
RegistryUnchanged == UNCHANGED <<task_array, task_count, os_time>>
OthersUnchanged(i) == \A j \in Cells : j /= i => task_array'[j] = task_array[j]

\* ------------------------------------------------------------ claims under Spec
\* C1: a registration with a valid period returns NOK_CNT_LIMIT only if the
\* entry point has no active record and every slot of the table holds an active
\* record; so a registration of a new identity succeeds whenever a reclaimed
\* slot is free, even when task_count is OS_MAX_TASK_NUM.
C1_CapacityOnlyWhenFull ==
    [][\A f \in Fns, p \in RegPeriods, s \in RegStates, d \in RegData, t \in RegDefers :
        /\ (ValidPeriod(p) /\ OS_TaskCreate(f, p, s, d, t) /\ obs'.ret = "NOK_CNT_LIMIT")
              => (~HasRecord(f) /\ \A i \in Slots : Active(i))
        /\ (ValidPeriod(p) /\ OS_TaskCreate(f, p, s, d, t)
              /\ ~HasRecord(f) /\ \E i \in Slots : ~Active(i))
              => (obs'.ret = "OK" /\ HasRecord(f)' /\ ~Active(SlotOf(f)'))]_vars

\* C2: registering, with a valid period, an entry point that has an active record
\* returns OK, overwrites that record's period, state, context and deadline
\* (clock + defer) in place, and leaves every other slot and the number of active
\* records as they were.
C2_ReRegisterOverwrites ==
    [][\A f \in Fns, p \in RegPeriods, s \in RegStates, d \in RegData, t \in RegDefers :
        (ValidPeriod(p) /\ HasRecord(f) /\ OS_TaskCreate(f, p, s, d, t))
            => /\ obs'.ret = "OK"
               /\ task_array'[SlotOf(f)] =
                      [function |-> f, task_period |-> p, execute_time |-> U32(os_time + t),
                       state |-> s, data_ptr |-> d]
               /\ OthersUnchanged(SlotOf(f))
               /\ ActiveCount' = ActiveCount
               /\ task_count' = task_count]_vars

\* C3: the table never holds more than OS_MAX_TASK_NUM active records and nothing
\* is written past it; with no reclaimed slot in the table, a registration of a
\* new identity with a valid period succeeds while fewer than OS_MAX_TASK_NUM are
\* registered, and once OS_MAX_TASK_NUM are it returns NOK_CNT_LIMIT and changes
\* no slot, nor task_count, nor the clock.
Dense == \A i \in Slots : i < task_count => Active(i)

CapacityInv ==
    /\ task_count <= OS_MAX_TASK_NUM
    /\ ActiveCount <= OS_MAX_TASK_NUM
    /\ task_array[OS_MAX_TASK_NUM] = EmptyTask

C3_Capacity ==
    [][/\ CapacityInv'
       /\ (obs'.op = "OS_TaskCreate" /\ Dense) =>
            \A f \in Fns :
                \/ HasRecord(f)
                \/ IF ActiveCount < OS_MAX_TASK_NUM
                   THEN /\ obs'.ret = "OK"
                        /\ HasRecord(f)'
                        /\ ActiveCount' = ActiveCount + 1
                   ELSE /\ obs'.ret = "NOK_CNT_LIMIT"
                        /\ RegistryUnchanged
                \/ \A p \in RegPeriods, s \in RegStates, d \in RegData, t \in RegDefers :
                        ~(ValidPeriod(p) /\ OS_TaskCreate(f, p, s, d, t))]_vars

\* The (OS_MAX_TASK_NUM + 1)th distinct identity was just refused by a full table.
C3_Witness ==
    /\ obs.op = "OS_TaskCreate" /\ obs.ret = "NOK_CNT_LIMIT"
    /\ Dense /\ ActiveCount = OS_MAX_TASK_NUM
    /\ Cardinality({task_array[i].function : i \in Slots}) = OS_MAX_TASK_NUM

\* C4: a registration with a period below OS_MIN_TIME or above OS_MAX_TIME returns
\* NOK_TIME_LIMIT and changes no slot, nor task_count, nor the clock, whatever the
\* table holds; with a period inside the bounds it never returns NOK_TIME_LIMIT.
C4_PeriodBounds ==
    [][obs'.op = "OS_TaskCreate" =>
        \A p \in RegPeriods :
            \/ IF p < OS_MIN_TIME \/ p > OS_MAX_TIME
               THEN obs'.ret = "NOK_TIME_LIMIT" /\ RegistryUnchanged
               ELSE obs'.ret /= "NOK_TIME_LIMIT"
            \/ \A f \in Fns, s \in RegStates, d \in RegData, t \in RegDefers :
                    ~OS_TaskCreate(f, p, s, d, t)]_vars

\* A registration was just refused for its period by a full table with a reclaimed slot.
C4_Witness ==
    /\ obs.op = "OS_TaskCreate" /\ obs.ret = "NOK_TIME_LIMIT"
    /\ task_count = OS_MAX_TASK_NUM
    /\ \E i, j \in Slots : Active(i) /\ ~Active(j)

\* ------------------------------------------------------------ claims under SpecTimed
\* An entry point is the identity of an active record when it is set and a slot holds it.
ActiveId(f) == f /= NULL /\ HasRecord(f)
Below(i) == i \in Slots /\ i < task_count

\* C5: for an entry point (NULL included) that is not the identity of an active
\* record, OS_TaskIsInQueue is false and the three setters return NOK_NULL_PTR and
\* change no slot; for the identity of an active record they return OK and change
\* exactly the field they name, in that record alone.
C5_SettersNotFound ==
    [][\A f \in TimedFnArgs :
        IF ActiveId(f)
        THEN /\ OS_TaskIsInQueue(f)
             /\ \A v \in OS_state : OS_SetTaskState(f, v) =>
                    /\ obs'.ret = "OK"
                    /\ task_array' = [task_array EXCEPT ![SlotOf(f)].state = v]
             /\ \A v \in RetVals : OS_SetTaskPeriod(f, v) =>
                    /\ obs'.ret = "OK"
                    /\ task_array' = [task_array EXCEPT ![SlotOf(f)].task_period = v]
             /\ \A v \in TimeArgs : OS_SetTaskExecuteTime(f, v) =>
                    /\ obs'.ret = "OK"
                    /\ task_array' = [task_array EXCEPT ![SlotOf(f)].execute_time = v]
        ELSE /\ ~OS_TaskIsInQueue(f)
             /\ \A v \in OS_state : OS_SetTaskState(f, v) =>
                    (obs'.ret = "NOK_NULL_PTR" /\ task_array' = task_array)
             /\ \A v \in RetVals : OS_SetTaskPeriod(f, v) =>
                    (obs'.ret = "NOK_NULL_PTR" /\ task_array' = task_array)
             /\ \A v \in TimeArgs : OS_SetTaskExecuteTime(f, v) =>
                    (obs'.ret = "NOK_NULL_PTR" /\ task_array' = task_array)]_vars

\* C6: an execution pass leaves a READY task that returned period_end STOPPED and
\* still in the queue; a tick clears every STOPPED record it finds (however it was
\* stopped) to the empty record without changing task_count, and the record's
\* entry point is then no longer in the queue.
C6_StopAndReclaim ==
    [][/\ obs'.op = "OS_TaskExecution" =>
            \A rets \in [Cells -> RetVals] : \A i \in Slots, f \in Fns :
                (/\ Below(i) /\ task_array[i].state = "READY" /\ task_array[i].function = f
                 /\ rets[i] = period_end
                 /\ OS_TaskExecution(rets) /\ ~fault')
                    => /\ task_array'[i].state = "STOPPED"
                       /\ task_array'[i].function = f
                       /\ OS_TaskIsInQueue(f)'
       /\ (obs'.op = "OS_TaskTimer" /\ OS_TaskTimer) =>
            \A i \in Slots, f \in FnArgs :
                (Below(i) /\ task_array[i].state = "STOPPED" /\ task_array[i].function = f)
                    => /\ task_array'[i] = EmptyTask
                       /\ task_count' = task_count
                       /\ f /= NULL => ~OS_TaskIsInQueue(f)']_vars

\* A tick has just reclaimed the slot of the one registered task.
C6_Witness ==
    /\ obs.op = "OS_TaskTimer"
    /\ task_count = 1 /\ task_array[0] = EmptyTask
    /\ ~OS_TaskIsInQueue(1)

\* C9: a tick moves every BLOCKED record whose deadline D is at or before the
\* incremented clock to READY with deadline D + period (in the word's arithmetic),
\* its period kept; a BLOCKED record whose deadline is later is left as it was.
C9_DeadlineArithmetic ==
    [][(obs'.op = "OS_TaskTimer" /\ OS_TaskTimer) =>
        \A i \in Slots :
            (Below(i) /\ task_array[i].state = "BLOCKED")
                => IF task_array[i].execute_time <= os_time'
                   THEN task_array'[i] =
                            [task_array[i] EXCEPT
                                !.state = "READY",
                                !.execute_time = (task_array[i].execute_time
                                                    + task_array[i].task_period) % WordMod]
                   ELSE task_array'[i] = task_array[i]]_vars

\* A tick has just made READY a record whose deadline was already behind the clock:
\* its new deadline is not the clock plus the period.
C9_Witness ==
    /\ obs.op = "OS_TaskTimer" /\ obs.calls = <<0>>
    /\ task_array[0].state = "READY" /\ task_array[0].function /= NULL
    /\ task_array[0].task_period >= 1
    /\ task_array[0].execute_time < os_time + task_array[0].task_period

\* C10: ticks and execution passes leave a SUSPENDED record as it is and never
\* invoke it, however far the clock is past its deadline.
C10_Suspension ==
    [][obs'.op \in {"OS_TaskTimer", "OS_TaskExecution"} =>
        \A i \in Slots :
            task_array[i].state = "SUSPENDED"
                => /\ task_array'[i] = task_array[i]
                   /\ \A k \in 1..Len(obs'.calls) : obs'.calls[k] /= i]_vars

\* An execution pass has just run over a SUSPENDED task whose deadline is behind the clock.
C10_Witness ==
    /\ obs.op = "OS_TaskExecution"
    /\ task_array[0].function /= NULL /\ task_array[0].state = "SUSPENDED"
    /\ task_array[0].execute_time + 2 <= os_time

\* C11: an execution pass that returns handles every record it finds READY, with
\* returned value R and stored period P, so: if R /= P the period becomes R and
\* the deadline clock + R, otherwise both are kept; the state becomes STOPPED if
\* R is period_end and BLOCKED otherwise; entry point and context are kept. A
\* record not READY is not invoked and not modified.
C11_ResultHandling ==
    [][obs'.op = "OS_TaskExecution" =>
        \A rets \in [Cells -> RetVals] :
            (OS_TaskExecution(rets) /\ ~fault') =>
                \A i \in Slots :
                    IF Below(i) /\ task_array[i].state = "READY"
                    THEN /\ \E k \in 1..Len(obs'.calls) : obs'.calls[k] = i
                         /\ task_array'[i].function = task_array[i].function
                         /\ task_array'[i].data_ptr = task_array[i].data_ptr
                         /\ task_array'[i].task_period = rets[i]
                         /\ task_array'[i].execute_time =
                                IF rets[i] /= task_array[i].task_period
                                THEN (os_time + rets[i]) % WordMod
                                ELSE task_array[i].execute_time
                         /\ task_array'[i].state = "STOPPED" <=> rets[i] = period_end
                         /\ task_array'[i].state = "BLOCKED" <=> rets[i] /= period_end
                    ELSE /\ task_array'[i] = task_array[i]
                         /\ \A k \in 1..Len(obs'.calls) : obs'.calls[k] /= i]_vars

\* A pass has just run a task that returned its stored period 2: it is BLOCKED and
\* its deadline was kept, it is not the clock plus the period.
C11_Witness ==
    /\ obs.op = "OS_TaskExecution" /\ obs.calls = <<0>>
    /\ task_array[0].state = "BLOCKED" /\ task_array[0].task_period = 2
    /\ task_array[0].execute_time /= os_time + 2

\* C8, restricted to T + d within the time word: while the clock is before T + d,
\* a task registered BLOCKED at clock T with defer d >= 1 is not READY, whatever
\* ticks and execution passes occur; the tick that brings the clock to T + d makes
\* it READY.
DeferredNotReady(f) ==
    \A i \in Slots : task_array[i].function = f => task_array[i].state /= "READY"

C8_DeferredStart ==
    [][/\ \A f \in Fns :
            (due'[f] /= -1 /\ due'[f] < WordMod /\ os_time' < due'[f])
                => (HasRecord(f) /\ DeferredNotReady(f))'
       /\ (obs'.op = "OS_TaskTimer" /\ OS_TaskTimer) =>
            \A f \in Fns :
                (due[f] = os_time' /\ due[f] < WordMod)
                    => \E i \in Slots : /\ task_array'[i].function = f
                                        /\ task_array'[i].state = "READY"]_vars

\* C8: a task registered BLOCKED at clock T with any defer d >= 1, and not touched
\* by a setter since, is not READY in any state whose clock is before T + d.
C8_DeferredStartAnyDefer ==
    \A f \in Fns : (due[f] /= -1 /\ os_time < due[f]) => DeferredNotReady(f)

\* The tick that brought the clock to T + d, d = 2, has just made the task READY.
C8_Witness ==
    /\ obs.op = "OS_TaskTimer" /\ obs.calls = <<0>>
    /\ due[1] = os_time /\ os_time >= 2
    /\ task_array[0].function = 1 /\ task_array[0].state = "READY"

\* ------------------------------------------------------------ SpecScenarioA
\* Scenario A of spec section 8: task A (identity 1) registered at clock 0 with
\* period 10, BLOCKED, no defer; then rounds of ten ticks and one execution pass
\* in which A returns 10.
ScenarioMaxTime == period_10ms * ScenarioRounds

ScenarioRegister ==
    obs.op = "none" /\ OS_TaskCreate(1, period_10ms, "BLOCKED", NULL, 0)

ScenarioRunNow == obs.op = "OS_TaskTimer" /\ os_time % period_10ms = 0

ScenarioTick ==
    /\ obs.op /= "none" /\ ~ScenarioRunNow
    /\ os_time < ScenarioMaxTime
    /\ OS_TaskTimer

ScenarioRunReady ==
    /\ ScenarioRunNow
    /\ OS_TaskExecution([i \in Cells |->
            IF Below(i) /\ task_array[i].state = "READY" THEN period_10ms ELSE period_end])

NextScenarioA == ScenarioRegister \/ ScenarioTick \/ ScenarioRunReady

SpecScenarioA == Init /\ [][NextScenarioA]_vars

\* C7 as claimed: after the first ten ticks A is READY and its stored deadline is 20.
C7_ScenarioAsStated ==
    (obs.op = "OS_TaskTimer" /\ os_time = period_10ms)
        => (task_array[0].state = "READY" /\ task_array[0].execute_time = 2 * period_10ms)

\* C7 (as amended): A is READY from the first tick on, with deadline 10; after ten
\* ticks it is READY with deadline 10; the pass invokes it once and leaves it
\* BLOCKED with period and deadline unchanged; the next tick makes it READY again
\* with the deadline 10 higher, so that after every round of ten ticks A is READY
\* and its deadline equals the clock.
C7_ScenarioA ==
    /\ obs.op = "OS_TaskTimer" =>
            /\ task_array[0].state = "READY"
            /\ task_array[0].execute_time
                  = period_10ms * ((os_time + period_10ms - 1) \div period_10ms)
    /\ (obs.op = "OS_TaskTimer" /\ os_time % period_10ms = 0) =>
            task_array[0].execute_time = os_time
    /\ obs.op = "OS_TaskExecution" =>
            /\ obs.calls = <<0>>
            /\ task_array[0].state = "BLOCKED"
            /\ task_array[0].execute_time = os_time
    /\ obs.op /= "none" =>
            /\ task_array[0].function = 1 /\ task_array[0].task_period = period_10ms
            /\ task_count = 1 /\ ~fault

\* The second round of ten ticks has ended: A is READY again at clock 20.
C7_Witness ==
    /\ obs.op = "OS_TaskTimer" /\ os_time = 2 * period_10ms
    /\ task_array[0].state = "READY" /\ task_array[0].execute_time = 2 * period_10ms

\* ------------------------------------------------------------ SpecAll
\* Every operation, sequentially: every identity registers, the setters are called
\* with the first identity and with NULL, tasks run and stop, ticks reclaim them.
AllSetFns == {NULL, 1}
AllPeriods == {period_1ms}
AllDefers == {1}
AllSetStates == {"READY"}
AllSetPeriods == {2}
AllSetTimes == {0}

AllCreate ==
    \E f \in Fns, p \in AllPeriods, s \in RegStates, d \in RegData, t \in AllDefers :
        OS_TaskCreate(f, p, s, d, t)

AllTimer == os_time < RegMaxTime /\ OS_TaskTimer

AllExecution == \E rets \in [Cells -> RegRets] : OS_TaskExecution(rets)

AllSetState == \E f \in AllSetFns, s \in AllSetStates : OS_SetTaskState(f, s)

AllSetPeriod == \E f \in AllSetFns, p \in AllSetPeriods : OS_SetTaskPeriod(f, p)

AllSetExecuteTime == \E f \in AllSetFns, t \in AllSetTimes : OS_SetTaskExecuteTime(f, t)

NextAll ==
    \/ AllCreate \/ AllTimer \/ AllExecution
    \/ AllSetState \/ AllSetPeriod \/ AllSetExecuteTime

SpecAll == Init /\ [][NextAll]_vars

\* ------------------------------------------------------------ claims under SpecAll
\* C15: every slot at or past task_count is empty (entry point NULL, SUSPENDED),
\* task_count is at most OS_MAX_TASK_NUM, every index an operation reads or writes
\* is below OS_MAX_TASK_NUM (nothing is written past the array), and no operation
\* decreases task_count.
HighWater ==
    /\ task_count <= OS_MAX_TASK_NUM
    /\ \A i \in Cells : i >= task_count =>
            (task_array[i].function = NULL /\ task_array[i].state = "SUSPENDED")
    /\ ScanRange \subseteq Slots
    /\ task_array[OS_MAX_TASK_NUM] = EmptyTask

C15_HighWaterMark ==
    [][/\ HighWater'
       /\ task_count' >= task_count
       /\ (obs'.op = "OS_TaskCreate" /\ obs'.ret = "OK") =>
            \A f \in Fns :
                \/ OS_TaskFind(f) < OS_MAX_TASK_NUM
                \/ ~HasRecord(f)'
                \/ InsertScan \subseteq Slots /\ OS_TaskInsertPosition \in Slots
                \/ \A p \in AllPeriods, s \in RegStates, d \in RegData, t \in AllDefers :
                        ~OS_TaskCreate(f, p, s, d, t)
       /\ obs'.op \in {"OS_SetTaskState", "OS_SetTaskPeriod", "OS_SetTaskExecuteTime"} =>
            (obs'.ret = "OK" \/ task_array' = task_array)]_vars

\* A registration has just taken the last slot: its scan read every index below
\* OS_MAX_TASK_NUM, and task_count is OS_MAX_TASK_NUM.
C15_Witness ==
    /\ obs.op = "OS_TaskCreate" /\ obs.ret = "OK"
    /\ task_count = OS_MAX_TASK_NUM
    /\ task_array[OS_MAX_TASK_NUM - 1].function /= NULL
    /\ task_array[OS_MAX_TASK_NUM - 1].execute_time = os_time + 1

\* C16: no two slots hold the same non-NULL entry point.
C16_UniqueIdentity ==
    \A i, j \in Cells :
        (i /= j /\ task_array[i].function /= NULL)
            => task_array[i].function /= task_array[j].function

\* After a tick, identity 1 has just been registered behind identity 2: the table
\* holds each once.
C16_Witness ==
    /\ obs.op = "OS_TaskCreate" /\ obs.ret = "OK"
    /\ os_time >= 1
    /\ task_array[0].function = 2 /\ task_array[1].function = 1
    /\ task_array[1].execute_time = os_time + 1

\* C17: a successful registration of an identity that has no record stores the
\* record (deadline clock + defer, in the word) in the lowest-indexed slot whose
\* entry point is NULL and changes no other slot; task_count grows by one if no
\* slot below it has a NULL entry point and is unchanged otherwise.
LowestEmpty == Min({i \in Cells : task_array[i].function = NULL})

C17_FirstFit ==
    [][(obs'.op = "OS_TaskCreate" /\ obs'.ret = "OK") =>
        \A f \in Fns :
            \/ HasRecord(f)
            \/ ~HasRecord(f)'
            \/ \A p \in AllPeriods, s \in RegStates, d \in RegData, t \in AllDefers :
                    OS_TaskCreate(f, p, s, d, t) =>
                        /\ LowestEmpty \in Slots
                        /\ task_array' =
                              [task_array EXCEPT ![LowestEmpty] =
                                  [function |-> f, task_period |-> p,
                                   execute_time |-> (os_time + t) % WordMod,
                                   state |-> s, data_ptr |-> d]]
                        /\ task_count' = IF LowestEmpty < task_count
                                         THEN task_count ELSE task_count + 1]_vars

\* After a tick, a registration with defer 1 has just gone into slot 0 below the
\* unchanged task_count 1.
C17_Witness ==
    /\ obs.op = "OS_TaskCreate" /\ obs.ret = "OK"
    /\ os_time >= 1 /\ task_count = 1
    /\ task_array[0].function = 2 /\ task_array[0].execute_time = os_time + 1

\* ------------------------------------------------------------ SpecLive
\* Tasks are registered before the scheduler starts; from then on the timer
\* interrupt keeps ticking (up to the model's horizon) and the main loop keeps
\* calling OS_TaskExecution, every task returning (README, Usage).
LiveFns == {1, 2}
LivePeriods == {period_1ms, 2}
LiveStates == {"BLOCKED", "READY"}
LiveDefers == {0, 2}

Started == obs.op \in {"OS_TaskTimer", "OS_TaskExecution"}

LiveCreate ==
    /\ ~Started
    /\ \E f \in LiveFns, p \in LivePeriods, s \in LiveStates, d \in RegData, t \in LiveDefers :
            OS_TaskCreate(f, p, s, d, t)

LiveTimer == os_time < LiveMaxTime /\ OS_TaskTimer

LiveExecution == \E rets \in [Cells -> RetVals] : OS_TaskExecution(rets)

NextLive == LiveCreate \/ LiveTimer \/ LiveExecution

SpecLive ==
    /\ Init /\ [][NextLive]_vars
    /\ WF_vars(LiveTimer) /\ WF_vars(LiveExecution)

\* C18: with ticks and execution passes weakly fair, every task returning and no
\* registration or setter after the start, a BLOCKED record whose deadline lies
\* within the horizon of the clock is eventually READY, and a READY record is
\* eventually invoked by a pass that leaves it BLOCKED or STOPPED.
C18_Liveness ==
    \A i \in Slots :
        /\ (/\ Started /\ Below(i) /\ task_array[i].state = "BLOCKED"
            /\ task_array[i].execute_time <= LiveMaxTime /\ os_time < LiveMaxTime)
                ~> (task_array[i].state = "READY")
        /\ (Started /\ Below(i) /\ task_array[i].state = "READY")
                ~> (/\ obs.op = "OS_TaskExecution"
                    /\ \E k \in 1..Len(obs.calls) : obs.calls[k] = i
                    /\ task_array[i].state \in {"BLOCKED", "STOPPED"})

\* A task registered BLOCKED with defer 2 was made READY by the tick that reached
\* its deadline and has just been invoked by a pass at that clock value.
C18_Witness ==
    /\ obs.op = "OS_TaskExecution" /\ obs.calls = <<0>>
    /\ task_array[0].function = 1 /\ due[1] = os_time
    /\ task_array[0].state = "BLOCKED"

\* ------------------------------------------------------------ SpecWrap
\* The scheduler when the clock is at the top of the time word: the state that
\* ticks alone (no task registered yet) lead to from Init, and every operation
\* from there, across the wrap of the clock.
WrapStart == WordMod - 2

InitLate ==
    /\ task_array = [i \in Cells |-> EmptyTask]
    /\ task_count = 0
    /\ os_time = WrapStart
    /\ obs = Obs("OS_TaskTimer", "OK", <<>>)
    /\ fault = FALSE
    /\ due = [f \in Fns |-> -1]
    /\ main = Idle

WrapDefers == {0, 1}

WrapCreate ==
    \E f \in TimedFns, p \in TimedPeriods, s \in OS_state, d \in RegData, t \in WrapDefers :
        OS_TaskCreate(f, p, s, d, t)

WrapTimer == (os_time >= WrapStart \/ os_time < WrapMaxTime) /\ OS_TaskTimer

WrapExecution == \E rets \in [Cells -> RetVals] : OS_TaskExecution(rets)

WrapSetState == \E f \in TimedFns, s \in OS_state : OS_SetTaskState(f, s)

WrapSetPeriod == \E f \in TimedFns, p \in RetVals : OS_SetTaskPeriod(f, p)

WrapSetExecuteTime == \E f \in TimedFns, t \in TimeArgs : OS_SetTaskExecuteTime(f, t)

NextWrap ==
    \/ WrapCreate \/ WrapTimer \/ WrapExecution
    \/ WrapSetState \/ WrapSetPeriod \/ WrapSetExecuteTime

SpecWrap == InitLate /\ [][NextWrap]_vars

\* C19: a tick increases the clock by exactly one and no other operation changes
\* it, so OS_GetOsTime never decreases; and the deadline a tick stores for a record
\* it makes READY (deadline + period in the word's arithmetic) is never smaller
\* than the deadline it replaces.
C19_LogicalClock ==
    [][/\ obs'.op = "OS_TaskTimer" => os_time' = os_time + 1
       /\ obs'.op /= "OS_TaskTimer" => os_time' = os_time
       /\ OS_GetOsTime' >= OS_GetOsTime
       /\ obs'.op = "OS_TaskTimer" =>
            \A i \in Slots :
                (Below(i) /\ task_array[i].state = "BLOCKED"
                    /\ task_array'[i].state = "READY")
                    => task_array'[i].execute_time >= task_array[i].execute_time]_vars

\* C19, the part that holds: a tick adds one to the clock in the arithmetic of the
\* time word, and no other operation changes the clock.
C19_ClockInWord ==
    [][/\ obs'.op = "OS_TaskTimer" => os_time' = (os_time + 1) % WordMod
       /\ obs'.op /= "OS_TaskTimer" => os_time' = os_time]_vars

\* ------------------------------------------------------------ SpecDrift
\* Two tasks, each registered once, BLOCKED, at a fixed clock value with a fixed
\* defer and period: task 1 at clock 0 with defer 2 and period 3, task 2 at clock 1
\* with the largest defer (clock + defer is one past the time word) and period 2.
\* Ticks and execution passes then occur in any order, so a pass may run a task
\* any number of ticks after it became READY; every task returns its period.
DriftFns == {1, 2}
DriftClock(f) == IF f = 1 THEN 0 ELSE 1
DriftDefer(f) == IF f = 1 THEN 2 ELSE WordMod - 1
DriftPeriod(f) == IF f = 1 THEN 3 ELSE 2

DriftRegister ==
    \E f \in DriftFns :
        /\ ~HasRecord(f) /\ os_time = DriftClock(f)
        /\ OS_TaskCreate(f, DriftPeriod(f), "BLOCKED", NULL, DriftDefer(f))

DriftTimer == os_time < DriftMaxTime /\ OS_TaskTimer

DriftExecution ==
    OS_TaskExecution([i \in Cells |->
        IF Below(i) /\ task_array[i].state = "READY"
        THEN task_array[i].task_period ELSE period_end])

NextDrift == DriftRegister \/ DriftTimer \/ DriftExecution

SpecDrift == Init /\ [][NextDrift]_vars

\* The ticks since the registration of f: no more deadlines than these were added.
TicksSince(f) == 0..(os_time - DriftClock(f))

\* C20: the stored deadline of a task registered at clock T with defer d and period
\* P, whose every invocation returns P, is T + d + k*P for some k >= 0 (k is at most
\* the number of ticks since the registration), however late the passes run it.
C20_DriftFreedomOnGrid ==
    \A f \in DriftFns : \A i \in Slots :
        task_array[i].function = f =>
            \E k \in TicksSince(f) :
                task_array[i].execute_time = DriftClock(f) + DriftDefer(f) + k * DriftPeriod(f)

\* C20, in the arithmetic of the time word: the stored deadline is T + d + k*P
\* modulo the size of the word, for some k from 0 to the number of ticks since the
\* registration, however late the passes run the task.
C20_DriftFreedom ==
    \A f \in DriftFns : \A i \in Slots :
        task_array[i].function = f =>
            \E k \in TicksSince(f) :
                task_array[i].execute_time =
                    (DriftClock(f) + DriftDefer(f) + k * DriftPeriod(f)) % WordMod

\* A pass has just run task 1 three ticks after the tick that made it READY and
\* stored its deadline 5 (k = 1), beside task 2, whose first deadline wrapped.
C20_Witness ==
    /\ obs.op = "OS_TaskExecution" /\ 0 \in {obs.calls[k] : k \in 1..Len(obs.calls)}
    /\ task_array[0].function = 1 /\ task_array[0].state = "BLOCKED"
    /\ task_array[0].execute_time = 5 /\ os_time = 5
    /\ task_array[1].function = 2

\* ------------------------------------------------------------ SpecPreempt
\* OS_TaskCreate and OS_TaskExecution run statement by statement in the main
\* context, and OS_TaskTimer (the 1 ms interrupt, README Usage) runs atomically
\* between any two statements. task_array is not volatile, so the order in which
\* a build makes the stores of one call visible to the interrupt is not fixed:
\* the stores a call has still to make are taken in any order.
PreFns == {1, 2}
PrePeriods == {period_1ms}
PreStates == {"BLOCKED", "STOPPED"}
PreDefers == {0, 2}
PreRets == {period_end, period_1ms}
NewFields == {"function", "task_period", "state", "execute_time", "data_ptr"}
UpdateFields == {"task_period", "state", "execute_time", "data_ptr"}

\* OS_TaskCreate up to its call of OS_TaskFind.
PreCreateCall(function, default_task_period, default_state, function_data_ptr, defer_time) ==
    /\ ~fault /\ main.pc = "idle"
    /\ IF TimeLimit(default_task_period)
       THEN /\ obs' = Obs("OS_TaskCreate", "NOK_TIME_LIMIT", <<>>)
            /\ UNCHANGED <<main, due>>
       ELSE IF CountLimit
       THEN /\ obs' = Obs("OS_TaskCreate", "NOK_CNT_LIMIT", <<>>)
            /\ UNCHANGED <<main, due>>
       ELSE /\ main' = [Idle EXCEPT !.pc = "find", !.function = function,
                                    !.default_task_period = default_task_period,
                                    !.default_state = default_state,
                                    !.function_data_ptr = function_data_ptr,
                                    !.defer_time = defer_time]
            /\ due' = [due EXCEPT ![function] =
                          IF default_state = "BLOCKED" /\ defer_time >= 1
                          THEN os_time + defer_time ELSE -1]
            /\ obs' = obs
    /\ UNCHANGED <<task_array, task_count, os_time, fault>>

\* One iteration of OS_TaskFind's loop, and the branch OS_TaskCreate takes on its result.
PreFindStep ==
    /\ ~fault /\ main.pc = "find"
    /\ main' = IF main.i < task_count
               THEN IF task_array[main.i].function = main.function
                    THEN [main EXCEPT !.pc = "write", !.position = main.i,
                                      !.pending = UpdateFields]
                    ELSE [main EXCEPT !.i = main.i + 1]
               ELSE [main EXCEPT !.pc = "insert", !.i = 0]
    /\ UNCHANGED <<task_array, task_count, os_time, obs, fault, due>>

\* One iteration of OS_TaskInsertPosition's loop.
PreInsertStep ==
    /\ ~fault /\ main.pc = "insert"
    /\ IF main.i <= task_count
       THEN IF task_array[main.i].function = NULL
            THEN /\ task_count' = InsertCount(main.i)
                 /\ main' = [main EXCEPT !.pc = "write", !.position = main.i,
                                         !.pending = NewFields]
            ELSE /\ main' = [main EXCEPT !.i = main.i + 1]
                 /\ task_count' = task_count
       ELSE /\ main' = [main EXCEPT !.pc = "write", !.position = main.i,
                                    !.pending = NewFields]
            /\ task_count' = task_count
    /\ UNCHANGED <<task_array, os_time, obs, fault, due>>

\* The value OS_TaskCreate stores in a field of the record.
CreateValue(field) ==
    CASE field = "function" -> main.function
      [] field = "task_period" -> main.default_task_period
      [] field = "state" -> main.default_state
      [] field = "execute_time" -> U32(os_time + main.defer_time)
      [] field = "data_ptr" -> main.function_data_ptr

\* One of OS_TaskCreate's stores into the record; after the last, it returns OK.
PreWriteStep ==
    /\ ~fault /\ main.pc = "write"
    /\ \E field \in main.pending :
        /\ task_array' = Store(task_array, main.position,
                               [task_array[main.position] EXCEPT ![field] = CreateValue(field)])
        /\ IF main.pending = {field}
           THEN main' = Idle /\ obs' = Obs("OS_TaskCreate", "OK", <<>>)
           ELSE main' = [main EXCEPT !.pending = main.pending \ {field}] /\ obs' = obs
    /\ UNCHANGED <<task_count, os_time, fault, due>>

\* OS_TaskExecution is entered.
PreExecBegin ==
    /\ ~fault /\ main.pc = "idle"
    /\ main' = [Idle EXCEPT !.pc = "scan"]
    /\ UNCHANGED <<task_array, task_count, os_time, obs, fault, due>>

\* The loop condition and the test of the slot's state; the pass returns after the last slot.
PreScanStep ==
    /\ ~fault /\ main.pc = "scan"
    /\ IF main.i < task_count
       THEN /\ main' = IF task_array[main.i].state = "READY"
                       THEN [main EXCEPT !.pc = "call"]
                       ELSE [main EXCEPT !.i = main.i + 1]
            /\ obs' = obs
       ELSE /\ main' = Idle
            /\ obs' = Obs("OS_TaskExecution", "OK", main.calls)
    /\ UNCHANGED <<task_array, task_count, os_time, fault, due>>

\* The task is called and returns period; calling a NULL entry point is a fault.
PreCallStep(period) ==
    /\ ~fault /\ main.pc = "call"
    /\ IF task_array[main.i].function = NULL
       THEN fault' = TRUE /\ main' = main
       ELSE /\ fault' = fault
            /\ main' = [main EXCEPT
                    !.pc = "post", !.period = period,
                    !.calls = Append(main.calls, main.i),
                    !.invoked = Append(main.invoked, task_array[main.i].function),
                    !.pending = IF period /= task_array[main.i].task_period
                                THEN {"task_period", "execute_time", "state"}
                                ELSE {"state"}]
    /\ UNCHANGED <<task_array, task_count, os_time, obs, due>>

\* The value OS_TaskExecution stores in a field of the record of the task just called.
ExecValue(field) ==
    CASE field = "task_period" -> main.period
      [] field = "execute_time" -> U32(OS_GetOsTime + main.period)
      [] field = "state" -> IF main.period = period_end THEN "STOPPED" ELSE "BLOCKED"

\* One of the stores that follow the call; after the last, the loop goes on.
PrePostStep ==
    /\ ~fault /\ main.pc = "post"
    /\ \E field \in main.pending :
        /\ task_array' = [task_array EXCEPT ![main.i][field] = ExecValue(field)]
        /\ main' = IF main.pending = {field}
                   THEN [main EXCEPT !.pc = "scan", !.i = main.i + 1, !.pending = {}]
                   ELSE [main EXCEPT !.pending = main.pending \ {field}]
    /\ UNCHANGED <<task_count, os_time, obs, fault, due>>

PreCreate ==
    \E f \in PreFns, p \in PrePeriods, s \in PreStates, d \in RegData, t \in PreDefers :
        PreCreateCall(f, p, s, d, t)

PreCall == \E period \in PreRets : PreCallStep(period)

PreTimer == os_time < PreMaxTime /\ OS_TaskTimer

NextPreempt ==
    \/ PreCreate \/ PreFindStep \/ PreInsertStep \/ PreWriteStep
    \/ PreExecBegin \/ PreScanStep \/ PreCall \/ PrePostStep
    \/ PreTimer

SpecPreempt == Init /\ [][NextPreempt]_vars

\* ------------------------------------------------------------ claims under SpecPreempt
\* C12: with the timer interrupt between any two statements of OS_TaskCreate and
\* OS_TaskExecution, and no NULL entry point passed to the API, the execution
\* pass never calls a NULL entry point.
C12_NoNullInvocation == ~fault

\* C13: with the timer interrupt between any two statements of OS_TaskCreate, a
\* task whose registration as BLOCKED with defer d >= 1 was called at clock T (and
\* has returned) is not READY while the clock is before T + d.
C13_DeferredUnderPreemption ==
    main.pc \notin {"find", "insert", "write"} =>
        \A f \in PreFns : (due[f] /= -1 /\ os_time < due[f]) => DeferredNotReady(f)

\* C14: within one execution pass no entry point is called twice; a tick, wherever
\* it preempts the pass, leaves every READY record as it is, calls no entry point
\* and leaves the pass where it was.
NoRepeat(seq) == \A a, b \in 1..Len(seq) : a /= b => seq[a] /= seq[b]

C14_NoReinvocation ==
    [][/\ NoRepeat(main'.invoked) /\ NoRepeat(main'.calls)
       /\ os_time' /= os_time =>
            /\ \A i \in Slots :
                    task_array[i].state = "READY" => task_array'[i] = task_array[i]
            /\ main' = main /\ fault' = fault]_vars

\* A tick has just preempted the pass between the return of a task and the stores
\* that follow it: the record is still READY.
C14_Witness ==
    /\ obs.op = "OS_TaskTimer"
    /\ main.pc = "post" /\ main.pending = {"task_period", "execute_time", "state"}
    /\ task_array[main.i].state = "READY"
    /\ task_array[main.i].execute_time <= os_time

TypeOK ==
    /\ task_count \in 0..(OS_MAX_TASK_NUM + 1)
    /\ os_time \in 0..(WordMod - 1)
    /\ main.pc \in {"idle", "find", "insert", "write", "scan", "call", "post"}
    /\ fault \in BOOLEAN
    /\ obs.ret \in OS_feedback
====
